---- MODULE Spec2Model ----
(***************************************************************************)
(* Model of the FSAE ruleset scraper cog (bot/cogs/scraper.py): the        *)
(* periodic check_for_updates cycle (load, scrape, enrich, diff, notify,   *)
(* save), the JSON snapshot file, and the tasks.loop scheduler driving it. *)
(*                                                                         *)
(* Representation of Python values:                                        *)
(*   - an optional string (document_id, filename, an environment variable) *)
(*     is a sequence of length 0 (None) or 1 (the string);                 *)
(*   - a url / href text is the sequence of its pieces around the marker   *)
(*     "DocumentID=", i.e. text.split("DocumentID=");                      *)
(*   - a Content-Disposition header value is the sequence of its           *)
(*     ';'-separated parts, each part the sequence of its '='-separated    *)
(*     pieces (already stripped);                                          *)
(*   - the value returned by scrape_pdfs is tagged, since it is either a   *)
(*     list or None.                                                       *)
(***************************************************************************)
EXTENDS Naturals, Sequences, FiniteSets, TLC

VARIABLES
    pc,             \* position of the loop task (see the actions)
    ready,          \* the bot's ready event (bot.wait_until_ready)
    env,            \* os.environ: CHANNEL_ID and ROLE_ID, optional strings
    site,           \* the environment: free, or a fixed page and HEAD answers
    file,           \* contents of DATA_FILE (fsae_pdfs.json)
    session,        \* rendering session of scrape_pdfs: none / playwright / browser
    previous_pdfs,  \* check_for_updates: previous_pdfs
    current_pdfs,   \* check_for_updates: current_pdfs (tagged list or None)
    idx,            \* number of records of current_pdfs already enriched
    new_pdfs,       \* check_for_updates: new_pdfs
    modified_pdfs,  \* check_for_updates: modified_pdfs
    sent,           \* messages passed to channel.send in the current / last cycle
    outcome,        \* how the current / last cycle ended ("running" while it runs)
    file_at_start,  \* history: contents of DATA_FILE when the cycle started
    saves,          \* history: calls of save_data in the current / last cycle
    enriched,       \* history: the current / last cycle completed enrichment
    marker_found,   \* history: the page of the current / last cycle held the
                    \* section marker row
    repeat          \* history, kept for a fixed site only: the cycle before this
                    \* one enriched the same observation and returned

vars == <<pc, ready, env, site, file, session, previous_pdfs, current_pdfs, idx,
          new_pdfs, modified_pdfs, sent, outcome, file_at_start, saves,
          enriched, marker_found, repeat>>

----------------------------------------------------------------------------
(* Bounds of the model *)

\* most sibling rows after the marker row of a page
MaxRows == 2
\* most records (previous and current together) drawn for the diff alone
MaxRecords == 3

----------------------------------------------------------------------------
(* Python values *)

None == <<>>
Some(s) == <<s>>

PyNone == [none |-> TRUE, items |-> <<>>]
PyList(s) == [none |-> FALSE, items |-> s]

SeqsUpTo(S, n) == UNION {[1..k -> S] : k \in 0..n}

Range(s) == {s[i] : i \in 1..Len(s)}

\* a + b on texts held as marker-split pieces: the last piece of a and the
\* first piece of b join into one piece
Concat(a, b) ==
    SubSeq(a, 1, Len(a) - 1) \o <<a[Len(a)] \o b[1]>> \o Tail(b)

----------------------------------------------------------------------------
(* The snapshot file: json.dump / json.load *)

\* JsonValue with str(v) written for every value
JsonValue_StrNone(v) == IF v = None THEN <<"string", "None">> ELSE <<"string", v[1]>>

\* json.dump of an optional string: null or a JSON string
JsonValue(v) == IF v = None THEN <<"null">> ELSE <<"string", v[1]>>

\* json.dump of one record: an object, keys in insertion order
JsonObject(pdf) ==
    << <<"title", <<"string", pdf.title>> >>,
       <<"url", <<"string", pdf.url>> >>,
       <<"document_id", JsonValue(pdf.document_id)>>,
       <<"filename", JsonValue(pdf.filename)>> >>

JsonDump(data) == [i \in 1..Len(data) |-> JsonObject(data[i])]

\* json.load of a JSON value
PyValue(j) == IF j[1] = "null" THEN None ELSE Some(j[2])

\* the value json.load gives a key of an object: the last pair with that key
JsonMember(obj, key) ==
    LET at == {i \in 1..Len(obj) : obj[i][1] = key}
        last == CHOOSE i \in at : \A j \in at : j <= i
    IN  obj[last][2]

JsonRecord(obj) ==
    [title |-> JsonMember(obj, "title")[2],
     url |-> JsonMember(obj, "url")[2],
     document_id |-> PyValue(JsonMember(obj, "document_id")),
     filename |-> PyValue(JsonMember(obj, "filename"))]

JsonLoad(text) == [i \in 1..Len(text) |-> JsonRecord(text[i])]

Absent == [state |-> "absent", text |-> <<>>]
Corrupt == [state |-> "corrupt", text |-> <<>>]
Written(data) == [state |-> "json", text |-> JsonDump(data)]

\* load_data with FileNotFoundError left to propagate
load_data_NoCatch(f) ==
    IF f.state = "absent" THEN [exc |-> Some("FileNotFoundError"), value |-> <<>>]
    ELSE IF f.state = "corrupt"
    THEN [exc |-> Some("JSONDecodeError"), value |-> <<>>]
    ELSE [exc |-> None, value |-> JsonLoad(f.text)]

\* load_data on file f: the list it returns, or the exception json.load raises
load_data(f) ==
    IF f.state = "absent" THEN [exc |-> None, value |-> <<>>]
    ELSE IF f.state = "corrupt"
    THEN [exc |-> Some("JSONDecodeError"), value |-> <<>>]
    ELSE [exc |-> None, value |-> JsonLoad(f.text)]

----------------------------------------------------------------------------
(* scrape_pdfs: the listing parser *)

base_url == <<"https://www.fsaeonline.com">>

\* full_url.split("DocumentID=")[1], None on IndexError
doc_id(full_url) == IF Len(full_url) >= 2 THEN Some(full_url[2]) ELSE None

\* final_title: main_title, plus the description in parentheses if any
final_title(row) ==
    IF row.desc # "" THEN row.main_title \o " (" \o row.desc \o ")"
    ELSE row.main_title

\* the record appended to links for one row with a download button
Link(row) ==
    LET full_url == Concat(base_url, row.href[1])
    IN  [title |-> final_title(row), url |-> full_url,
         document_id |-> doc_id(full_url)]

\* rows: the siblings after the marker row, up to the next folder row
RECURSIVE RowsOfSection(_)
RowsOfSection(siblings) ==
    IF siblings = <<>> \/ Head(siblings).folder THEN <<>>
    ELSE <<Head(siblings)>> \o RowsOfSection(Tail(siblings))

\* links: one record per row that has a download button with an href
RECURSIVE Links(_)
Links(rows) ==
    IF rows = <<>> THEN <<>>
    ELSE (IF Head(rows).href # None THEN <<Link(Head(rows))>> ELSE <<>>)
         \o Links(Tail(rows))

\* the value scrape_pdfs returns for a rendered page
ParsePage(page) ==
    IF ~page.marker THEN PyNone
    ELSE PyList(Links(RowsOfSection(page.rows)))

----------------------------------------------------------------------------
(* get_metadata: filename from the Content-Disposition header *)

\* the loop over disposition.split(';'): the last part starting with
\* 'filename=' sets filename to part.split('=')[1]
RECURSIVE FilenameOfParts(_, _)
FilenameOfParts(parts, filename) ==
    IF parts = <<>> THEN filename
    ELSE FilenameOfParts(Tail(parts),
            IF Len(Head(parts)) >= 2 /\ Head(parts)[1] = "filename"
            THEN Some(Head(parts)[2]) ELSE filename)

\* get_metadata(url, session)["filename"] for one answer to the HEAD request:
\* the request raised, or a response with or without the header
get_metadata(answer) ==
    IF answer.raised THEN None
    ELSE IF answer.disposition = None THEN None
    ELSE FilenameOfParts(answer.disposition[1], None)

----------------------------------------------------------------------------
(* check_for_updates: the diff *)

\* {pdf[key]: pdf for pdf in previous_pdfs}: the last record wins a key
RECURSIVE DictBy(_, _, _)
DictBy(key, pdfs, dict) ==
    IF pdfs = <<>> THEN dict
    ELSE DictBy(key, Tail(pdfs),
            [k \in DOMAIN dict \cup {Head(pdfs)[key]} |->
                IF k = Head(pdfs)[key] THEN Head(pdfs) ELSE dict[k]])

EmptyDict == [k \in {} |-> None]

previous_urls(previous) == DictBy("url", previous, EmptyDict)
previous_titles(previous) == DictBy("title", previous, EmptyDict)

\* Changed with a filename test that needs both filenames present
Changed_BothPresent(pdf, previous_pdf) ==
    \/ /\ pdf.filename # None
       /\ previous_pdf.filename # None
       /\ pdf.filename # previous_pdf.filename
    \/ /\ pdf.document_id # previous_pdf.document_id
       /\ pdf.title = previous_pdf.title

\* Changed without the title guard on the document_id test
Changed_NoTitleGuard(pdf, previous_pdf) ==
    \/ pdf.filename # previous_pdf.filename
    \/ pdf.document_id # previous_pdf.document_id

\* the test of lines 94-97 for a record whose url is a key of previous_urls
Changed(pdf, previous_pdf) ==
    \/ pdf.filename # previous_pdf.filename
    \/ /\ pdf.document_id # previous_pdf.document_id
       /\ pdf.title = previous_pdf.title

\* Classify without the elif branch on previous_titles
Classify_NoTitleBranch(pdf, by_url, by_title) ==
    IF pdf.url \in DOMAIN by_url
    THEN (IF Changed(pdf, by_url[pdf.url]) THEN "modified" ELSE "unchanged")
    ELSE "new"

\* the branch of the comparison loop one record takes
Classify(pdf, by_url, by_title) ==
    IF pdf.url \in DOMAIN by_url
    THEN (IF Changed(pdf, by_url[pdf.url]) THEN "modified" ELSE "unchanged")
    ELSE IF pdf.title \in DOMAIN by_title THEN "modified"
    ELSE "new"

\* Compare with the title test as an if of its own, not an elif: a record
\* that took the url branch goes through the title test and its else as well
RECURSIVE Compare_IfNotElif(_, _, _, _)
Compare_IfNotElif(current, by_url, by_title, acc) ==
    IF current = <<>> THEN acc
    ELSE LET pdf == Head(current)
             first == pdf.url \in DOMAIN by_url /\ Changed(pdf, by_url[pdf.url])
             second == pdf.title \in DOMAIN by_title
             after_first == IF first THEN Append(acc.modified, pdf) ELSE acc.modified
         IN  Compare_IfNotElif(Tail(current), by_url, by_title,
                [new |-> IF ~second THEN Append(acc.new, pdf) ELSE acc.new,
                 modified |-> IF second THEN Append(after_first, pdf)
                              ELSE after_first])

\* the comparison loop: appends to new_pdfs and modified_pdfs in list order
RECURSIVE Compare(_, _, _, _)
Compare(current, by_url, by_title, acc) ==
    IF current = <<>> THEN acc
    ELSE LET pdf == Head(current)
             class == Classify(pdf, by_url, by_title)
         IN  Compare(Tail(current), by_url, by_title,
                [new |-> IF class = "new" THEN Append(acc.new, pdf) ELSE acc.new,
                 modified |-> IF class = "modified"
                              THEN Append(acc.modified, pdf) ELSE acc.modified])

Diff(previous, current) ==
    Compare(current, previous_urls(previous), previous_titles(previous),
            [new |-> <<>>, modified |-> <<>>])

----------------------------------------------------------------------------
(* The environment: pages, HEAD answers, configuration *)

Descs == {"", "2024"}
Hrefs == {<<"/cdsweb/doc?", "5">>, <<"/cdsweb/file">>}
Titles == {"Rules", "Rules (2024)"}
Urls == {Concat(base_url, h) : h \in Hrefs}
DocIds == {None, Some("5")}
Filenames == {None, Some("a.pdf")}

FolderRow == [folder |-> TRUE, main_title |-> "Other", desc |-> "", href |-> None]
DocRows ==
    {[folder |-> FALSE, main_title |-> "Rules", desc |-> d, href |-> h] :
        d \in Descs, h \in {None} \cup {Some(x) : x \in Hrefs}}
Rows == {FolderRow} \cup DocRows

Pages == {[marker |-> m, rows |-> r] : m \in BOOLEAN, r \in SeqsUpTo(Rows, MaxRows)}

HeadAnswers ==
    {[raised |-> TRUE, disposition |-> None],
     [raised |-> FALSE, disposition |-> None],
     [raised |-> FALSE, disposition |-> Some(<< <<"inline">> >>)],
     [raised |-> FALSE,
      disposition |-> Some(<< <<"attachment">>, <<"filename", "a.pdf">> >>)]}

EnvValues == {None, Some("0"), Some("42")}
Envs == [CHANNEL_ID : EnvValues, ROLE_ID : EnvValues]

\* int(s) for the strings of EnvValues
int(s) == IF s = "0" THEN 0 ELSE 42

\* a fixed site answers the HEAD request to a url the same way every time:
\* the request fails, or the response names a file
FixedAnswers ==
    {a \in HeadAnswers : a.raised \/ get_metadata(a) # None}

Free == [fixed |-> FALSE]
FixedSites ==
    {[fixed |-> TRUE, page |-> p, answers |-> a] :
        p \in Pages, a \in [Urls -> FixedAnswers]}

\* DATA_FILE when the process starts: missing, unparsable, or the one-record
\* snapshot an earlier run saved
StartFiles ==
    {Absent, Corrupt} \cup
    {Written(<<[title |-> t, url |-> u, document_id |-> doc_id(u), filename |-> f]>>) :
        t \in Titles, u \in Urls, f \in Filenames}

\* what page.content() may render, and what a HEAD request to url may answer
PagesOf(s) == IF s.fixed THEN {s.page} ELSE Pages
AnswersOf(s, url) == IF s.fixed THEN {s.answers[url]} ELSE HeadAnswers

----------------------------------------------------------------------------
(* tasks.loop: what the loop task does with an exception of the cycle *)

\* the exceptions tasks.loop answers with a back-off and a retry
ValidExceptions == {"OSError", "ClientError", "TimeoutError"}

AfterException(exc) ==
    IF exc = "CancelledError" THEN "cancelled"
    ELSE IF exc \in ValidExceptions THEN "backoff"
    ELSE "failed"

\* the ways check_for_updates returns: after save_data (line 136), at line 109
\* and at line 115
Returns == {"returned", "skipped_config", "skipped_channel"}

\* the frame of check_for_updates is gone: its local variables with it
EndLocals ==
    /\ previous_pdfs' = <<>>
    /\ current_pdfs' = PyList(<<>>)
    /\ idx' = 0
    /\ new_pdfs' = <<>>
    /\ modified_pdfs' = <<>>

\* the cycle ends with exception exc propagating out of check_for_updates
Raise(exc) ==
    /\ pc' = AfterException(exc)
    /\ outcome' = exc
    /\ EndLocals

----------------------------------------------------------------------------
(* State after ScraperCog.__init__: the loop task is started and waits in   *)
(* before_check; no cycle has run.                                          *)

locals == <<previous_pdfs, current_pdfs, idx, new_pdfs, modified_pdfs>>
history == <<file_at_start, saves, enriched, marker_found, repeat>>

InitCommon ==
    /\ pc = "wait_ready"
    /\ ready = FALSE
    /\ env \in Envs
    /\ file \in StartFiles
    /\ session = "none"
    /\ previous_pdfs = <<>>
    /\ current_pdfs = PyList(<<>>)
    /\ idx = 0
    /\ new_pdfs = <<>>
    /\ modified_pdfs = <<>>
    /\ sent = <<>>
    /\ outcome = "none"
    /\ file_at_start = file
    /\ saves = 0
    /\ enriched = FALSE
    /\ marker_found = TRUE
    /\ repeat = FALSE

Init == InitCommon /\ site = Free

----------------------------------------------------------------------------
(* The bot and the scheduler *)

\* the client becomes ready (on_ready)
BotReady ==
    /\ ~ready
    /\ ready' = TRUE
    /\ UNCHANGED <<pc, env, site, file, session, locals, sent, outcome, history>>

\* WaitUntilReady without the wait for the client
WaitUntilReady_NoWait ==
    /\ pc = "wait_ready"
    /\ pc' = "grace"
    /\ UNCHANGED <<ready, env, site, file, session, locals, sent, outcome, history>>

\* before_check: bot.wait_until_ready() returns
WaitUntilReady ==
    /\ pc = "wait_ready"
    /\ ready
    /\ pc' = "grace"
    /\ UNCHANGED <<ready, env, site, file, session, locals, sent, outcome, history>>

\* before_check: asyncio.sleep(5) returns; the first iteration is due
GraceElapsed ==
    /\ pc = "grace"
    /\ pc' = "due"
    /\ UNCHANGED <<ready, env, site, file, session, locals, sent, outcome, history>>

\* tasks.loop calls check_for_updates: the first iteration is due, or the
\* 20 s sleep after a completed iteration, or the back-off after a handled
\* exception, is over
InCycle ==
    {"launch", "new_page", "goto", "content", "close", "enrich", "config",
     "send_new", "send_modified", "save"}

\* IterationDue with a timer that fires every 20 s whether or not the
\* previous call of check_for_updates has ended
IterationDue_Timer == pc \in {"due", "sleep", "backoff"} \cup InCycle

IterationDue == pc \in {"due", "sleep", "backoff"}

\* the loop task is cancelled while it waits at one of its await points
AwaitPoints ==
    {"wait_ready", "grace", "sleep", "backoff", "launch", "new_page", "goto",
     "content", "close", "enrich", "send_new", "send_modified"}

Cancel ==
    /\ pc \in AwaitPoints
    /\ pc' = "cancelled"
    /\ outcome' = IF pc \in InCycle THEN "CancelledError" ELSE outcome
    /\ session' = "none"
    /\ EndLocals
    /\ UNCHANGED <<ready, env, site, file, sent, history>>

----------------------------------------------------------------------------
(* check_for_updates, line 74: load_data *)

StartLocals ==
    /\ sent' = <<>>
    /\ file_at_start' = file
    /\ saves' = 0
    /\ enriched' = FALSE
    /\ marker_found' = TRUE
    /\ repeat' = (site.fixed /\ enriched /\ outcome \in Returns)

\* load_data returns the parsed file, or [] on FileNotFoundError; the cycle
\* goes on to scrape_pdfs and enters async_playwright()
LoadData ==
    /\ IterationDue
    /\ load_data(file).exc = None
    /\ previous_pdfs' = load_data(file).value
    /\ UNCHANGED <<current_pdfs, idx, new_pdfs, modified_pdfs>>
    /\ StartLocals
    /\ pc' = "launch"
    /\ outcome' = "running"
    /\ session' = "playwright"
    /\ UNCHANGED <<ready, env, site, file>>

\* load_data raises: json.load on an unparsable file (JSONDecodeError), or
\* open() on a file that exists but cannot be read (an OSError)
LoadDataFails ==
    /\ IterationDue
    /\ \/ load_data(file).exc # None /\ Raise(load_data(file).exc[1])
       \/ file.state # "absent" /\ Raise("OSError")
    /\ StartLocals
    /\ UNCHANGED <<ready, env, site, file, session>>

----------------------------------------------------------------------------
(* scrape_pdfs, lines 147-152: the rendering session *)

ScrapeStep(at, next, sess) ==
    /\ pc = at
    /\ pc' = next
    /\ session' = sess
    /\ UNCHANGED <<ready, env, site, file, locals, sent, outcome, history>>

\* ScrapeFails with the failed scrape saved as an empty list
ScrapeFails_StillSaves ==
    /\ pc \in {"launch", "new_page", "goto", "content", "close"}
    /\ Raise("PlaywrightError")
    /\ session' = "none"
    /\ file' = Written(<<>>)
    /\ saves' = saves + 1
    /\ UNCHANGED <<ready, env, site, sent, file_at_start, enriched, marker_found,
                   repeat>>

\* ScrapeFails without the async with block: only browser.close() on the
\* path without an exception ends the session
ScrapeFails_LeavesSession ==
    /\ pc \in {"launch", "new_page", "goto", "content", "close"}
    /\ Raise("PlaywrightError")
    /\ UNCHANGED <<ready, env, site, file, session, sent, history>>

\* an await of the rendering session raises; leaving the async with block
\* stops playwright, and the exception propagates out of the cycle
ScrapeFails ==
    /\ pc \in {"launch", "new_page", "goto", "content", "close"}
    /\ Raise("PlaywrightError")
    /\ session' = "none"
    /\ UNCHANGED <<ready, env, site, file, sent, history>>

Launch == ScrapeStep("launch", "new_page", "browser")
NewPage == ScrapeStep("new_page", "goto", "browser")
Goto == ScrapeStep("goto", "content", "browser")

\* page.content() returns the rendered html, held parsed (lines 154-205 read
\* nothing else) until scrape_pdfs returns
Content ==
    /\ pc = "content"
    /\ \E page \in PagesOf(site) :
        /\ current_pdfs' = ParsePage(page)
        /\ marker_found' = page.marker
    /\ pc' = "close"
    /\ UNCHANGED <<ready, env, site, file, session, previous_pdfs, idx, new_pdfs,
                   modified_pdfs, sent, outcome, file_at_start, saves, enriched,
                   repeat>>

\* browser.close() returns, the async with block ends, scrape_pdfs returns
Close == ScrapeStep("close", "enrich", "none")

----------------------------------------------------------------------------
(* check_for_updates, lines 78-81: enrichment *)

WithFilename(pdf, filename) ==
    [title |-> pdf.title, url |-> pdf.url, document_id |-> pdf.document_id,
     filename |-> filename]

\* for pdf in current_pdfs, when scrape_pdfs returned None
EnrichNone ==
    /\ pc = "enrich"
    /\ current_pdfs.none
    /\ Raise("TypeError")
    /\ UNCHANGED <<ready, env, site, file, session, sent, history>>

\* EnrichOne with the failure of the HEAD request left to propagate
EnrichOne_RaisesOnFailure ==
    /\ pc = "enrich"
    /\ ~current_pdfs.none
    /\ idx < Len(current_pdfs.items)
    /\ LET pdf == current_pdfs.items[idx + 1]
       IN  \E answer \in AnswersOf(site, pdf.url) :
             IF answer.raised
             THEN Raise("ClientError")
             ELSE /\ current_pdfs' = PyList([current_pdfs.items EXCEPT
                      ![idx + 1] = WithFilename(pdf, get_metadata(answer))])
                  /\ idx' = idx + 1
                  /\ UNCHANGED <<pc, previous_pdfs, new_pdfs, modified_pdfs, outcome>>
    /\ UNCHANGED <<ready, env, site, file, session, sent, history>>

\* one pass of the loop body: the HEAD request for the next record
EnrichOne ==
    /\ pc = "enrich"
    /\ ~current_pdfs.none
    /\ idx < Len(current_pdfs.items)
    /\ LET pdf == current_pdfs.items[idx + 1]
       IN  \E answer \in AnswersOf(site, pdf.url) :
             current_pdfs' = PyList([current_pdfs.items EXCEPT
                 ![idx + 1] = WithFilename(pdf, get_metadata(answer))])
    /\ idx' = idx + 1
    /\ UNCHANGED <<pc, ready, env, site, file, session, previous_pdfs, new_pdfs,
                   modified_pdfs, sent, outcome, history>>

\* the loop is over and the client session is closed; lines 83-103 build the
\* two dictionaries and run the comparison loop
EnrichDone ==
    /\ pc = "enrich"
    /\ ~current_pdfs.none
    /\ idx = Len(current_pdfs.items)
    /\ LET d == Diff(previous_pdfs, current_pdfs.items)
       IN  /\ new_pdfs' = d.new
           /\ modified_pdfs' = d.modified
    /\ pc' = "config"
    /\ enriched' = TRUE
    /\ UNCHANGED <<ready, env, site, file, session, previous_pdfs, current_pdfs,
                   idx, sent, outcome, file_at_start, saves, marker_found, repeat>>

----------------------------------------------------------------------------
(* check_for_updates, lines 105-133: configuration and notification *)

\* the cycle returns from check_for_updates; the loop sleeps until the next tick
Return(how) ==
    /\ pc' = "sleep"
    /\ outcome' = how
    /\ EndLocals

\* lines 105-115 and 132-133, up to the first channel.send or save_data
ConfigStep ==
    /\ pc = "config"
    /\ IF env.CHANNEL_ID = None \/ env.ROLE_ID = None
       THEN Raise("TypeError")
       ELSE IF int(env.CHANNEL_ID[1]) = 0 \/ int(env.ROLE_ID[1]) = 0
       THEN Return("skipped_config")
       ELSE IF new_pdfs # <<>> \/ modified_pdfs # <<>>
       THEN \/ Return("skipped_channel")
            \/ /\ pc' = IF new_pdfs # <<>> THEN "send_new" ELSE "send_modified"
               /\ UNCHANGED <<outcome, locals>>
       ELSE pc' = "save" /\ UNCHANGED <<outcome, locals>>
    /\ UNCHANGED <<ready, env, site, file, session, sent, history>>

\* the text of a message: the header with the role mention, one line per record
Message(kind, pdfs) ==
    [kind |-> kind, role |-> int(env.ROLE_ID[1]),
     lines |-> [i \in 1..Len(pdfs) |-> <<pdfs[i].title, pdfs[i].url>>]]

\* SendNew with channel.send called once per record
SendNew_PerRecord ==
    /\ pc = "send_new"
    /\ sent' = sent \o [i \in 1..Len(new_pdfs) |-> Message("new", <<new_pdfs[i]>>)]
    /\ pc' = IF modified_pdfs # <<>> THEN "send_modified" ELSE "save"
    /\ UNCHANGED <<ready, env, site, file, session, locals, outcome, history>>

\* lines 117-123: channel.send of the new records returns
SendNew ==
    /\ pc = "send_new"
    /\ sent' = Append(sent, Message("new", new_pdfs))
    /\ pc' = IF modified_pdfs # <<>> THEN "send_modified" ELSE "save"
    /\ UNCHANGED <<ready, env, site, file, session, locals, outcome, history>>

\* lines 125-131: channel.send of the modified records returns
SendModified ==
    /\ pc = "send_modified"
    /\ sent' = Append(sent, Message("modified", modified_pdfs))
    /\ pc' = "save"
    /\ UNCHANGED <<ready, env, site, file, session, locals, outcome, history>>

\* SendFails with the current list saved before the exception leaves the cycle
SendFails_StillSaves ==
    /\ pc \in {"send_new", "send_modified"}
    /\ \E exc \in {"HTTPException", "ClientError"} : Raise(exc)
    /\ file' = Written(current_pdfs.items)
    /\ saves' = saves + 1
    /\ UNCHANGED <<ready, env, site, session, sent, file_at_start, enriched,
                   marker_found, repeat>>

\* channel.send raises: an HTTP error of the platform (discord.HTTPException),
\* or a connection error (aiohttp.ClientError)
SendFails ==
    /\ pc \in {"send_new", "send_modified"}
    /\ \E exc \in {"HTTPException", "ClientError"} : Raise(exc)
    /\ UNCHANGED <<ready, env, site, file, session, sent, history>>

----------------------------------------------------------------------------
(* check_for_updates, line 136: save_data *)

\* SaveData with the records of previous_pdfs that left the page kept in the
\* file, after the current list
SaveData_KeepsDropped ==
    /\ pc = "save"
    /\ LET Gone(p) == \A i \in 1..Len(current_pdfs.items) :
                         \/ current_pdfs.items[i].url # p.url
                         \/ current_pdfs.items[i].title # p.title
       IN  file' = Written(current_pdfs.items \o SelectSeq(previous_pdfs, Gone))
    /\ saves' = saves + 1
    /\ Return("returned")
    /\ UNCHANGED <<ready, env, site, session, sent, file_at_start, enriched,
                   marker_found, repeat>>

SaveData ==
    /\ pc = "save"
    /\ file' = Written(current_pdfs.items)
    /\ saves' = saves + 1
    /\ Return("returned")
    /\ UNCHANGED <<ready, env, site, session, sent, file_at_start, enriched,
                   marker_found, repeat>>

\* the process is killed while save_data runs. open(DATA_FILE, "w") truncates
\* the file and json.dump then writes it piece by piece: the file is left as
\* it was (killed before open), empty or cut short (killed before the last
\* write reached it), or complete (killed after the with block)
SaveCrashes ==
    /\ pc = "save"
    /\ file' \in {file, Corrupt, Written(current_pdfs.items)}
    /\ pc' = "crashed"
    /\ outcome' = "killed"
    /\ session' = "none"
    /\ EndLocals
    /\ UNCHANGED <<ready, env, site, sent, history>>

----------------------------------------------------------------------------

Next ==
    \/ BotReady
    \/ WaitUntilReady
    \/ GraceElapsed
    \/ Cancel
    \/ LoadData
    \/ LoadDataFails
    \/ Launch
    \/ NewPage
    \/ Goto
    \/ Content
    \/ Close
    \/ ScrapeFails
    \/ EnrichNone
    \/ EnrichOne
    \/ EnrichDone
    \/ ConfigStep
    \/ SendNew
    \/ SendModified
    \/ SendFails
    \/ SaveData
    \/ SaveCrashes

Spec == Init /\ [][Next]_vars

----------------------------------------------------------------------------
(* The diff alone: the cycle stands at the end of the enrichment loop with  *)
(* any previous snapshot and any enriched current list                      *)

DiffFilenames == Filenames \cup {Some("b.pdf")}

StoredRecords ==
    [title : Titles, url : Urls, document_id : DocIds, filename : DiffFilenames]

EnrichedRecords ==
    {[title |-> t, url |-> u, document_id |-> doc_id(u), filename |-> f] :
        t \in Titles, u \in Urls, f \in DiffFilenames}

InitDiff ==
    /\ \E n \in 0..MaxRecords :
        /\ previous_pdfs \in SeqsUpTo(StoredRecords, n)
        /\ \E cur \in SeqsUpTo(EnrichedRecords, MaxRecords - n) :
            /\ current_pdfs = PyList(cur)
            /\ idx = Len(cur)
    /\ pc = "enrich"
    /\ ready = TRUE
    /\ env = [CHANNEL_ID |-> Some("42"), ROLE_ID |-> Some("42")]
    /\ site = Free
    /\ file = Written(previous_pdfs)
    /\ session = "none"
    /\ new_pdfs = <<>>
    /\ modified_pdfs = <<>>
    /\ sent = <<>>
    /\ outcome = "running"
    /\ file_at_start = file
    /\ saves = 0
    /\ enriched = FALSE
    /\ marker_found = TRUE
    /\ repeat = FALSE

SpecDiff == InitDiff /\ [][EnrichDone]_vars

----------------------------------------------------------------------------
(* The cycle against a site that does not change: every cycle renders the   *)
(* same page and every HEAD request to a url gets the same answer           *)

InitStable == InitCommon /\ site \in FixedSites

SpecStable == InitStable /\ [][Next]_vars

----------------------------------------------------------------------------
(* Properties *)

\* the cycle stands after the comparison loop, its local variables in place
AfterDiff == pc \in {"config", "send_new", "send_modified", "save"}

current == current_pdfs.items

\* s is t with some elements left out: the same records in the same order
IsSubsequence(s, t) ==
    \E f \in [1..Len(s) -> 1..Len(t)] :
        /\ \A i \in 1..Len(s) : t[f[i]] = s[i]
        /\ \A i, j \in 1..Len(s) : i < j => f[i] < f[j]

\* the entry of previous that the by-url mapping holds for url: the last one
\* in previous with that url
HasUrl(previous, url) == \E j \in 1..Len(previous) : previous[j].url = url
LastWithUrl(previous, url) ==
    LET at == {j \in 1..Len(previous) : previous[j].url = url}
    IN  previous[CHOOSE j \in at : \A k \in at : k <= j]

IsNew(pdf) == pdf \in Range(new_pdfs) /\ pdf \notin Range(modified_pdfs)
IsModified(pdf) == pdf \in Range(modified_pdfs) /\ pdf \notin Range(new_pdfs)
IsUnchanged(pdf) == pdf \notin Range(new_pdfs) /\ pdf \notin Range(modified_pdfs)

\* C1: after the comparison loop no record is in both new_pdfs and
\* modified_pdfs, and each of the two lists holds records of current_pdfs only,
\* in the order they have in current_pdfs.
C1_DiffDisjointOrderedSubsets ==
    AfterDiff =>
        /\ Range(new_pdfs) \cap Range(modified_pdfs) = {}
        /\ IsSubsequence(new_pdfs, current)
        /\ IsSubsequence(modified_pdfs, current)

\* C1 witness: of two records of current_pdfs the loop classified the first
\* modified and the second new
C1_Witness ==
    /\ AfterDiff
    /\ Len(current) = 2
    /\ modified_pdfs = <<current[1]>>
    /\ new_pdfs = <<current[2]>>

\* C2: against a site that does not change, a cycle that follows a cycle
\* which enriched the same observation and returned (whatever its channel
\* resolution was) sends no message.
C2_SecondCycleSilent == repeat => sent = <<>>

\* C3: a cycle that returns from check_for_updates leaves the file holding
\* its enriched current list, also when it returns without notifying.
C3_ReturnedCycleSaved ==
    [][(pc \in InCycle /\ pc' = "sleep") => file' = Written(current)]_vars

\* C4: after a cycle aborted by a failure of the rendering session, by
\* cancellation or by a failure of load_data, save_data was not called in
\* that cycle and the file holds what it held when the cycle started.
Aborts == {"PlaywrightError", "CancelledError", "JSONDecodeError", "OSError"}
C4_AbortedCycleNeverSaves ==
    outcome \in Aborts => (saves = 0 /\ file = file_at_start)

\* C4 witness: a cycle is cancelled after it sent a message and before
\* save_data, over a snapshot written by an earlier cycle
C4_Witness ==
    /\ outcome = "CancelledError"
    /\ sent # <<>>
    /\ file.state = "json"
    /\ file.text # <<>>

\* C5: after a cycle ended with an error of the rendering session raised by
\* scrape_pdfs the loop task has not stopped: it sleeps until a later cycle.
C5_LoopSurvivesFetchError ==
    outcome = "PlaywrightError" => pc \in {"sleep", "backoff"}

\* C6: a cycle whose page lacks the section marker row goes on with an empty
\* current list: scrape_pdfs hands back a list and no TypeError ends the cycle.
C6_MissingMarkerProceeds ==
    ~marker_found =>
        /\ pc = "enrich" => ~current_pdfs.none
        /\ outcome # "TypeError"

\* C7: with CHANNEL_ID or ROLE_ID unset, a cycle that reached the
\* configuration check raises nothing and the loop task keeps running.
C7_UnsetConfigOnlySkips ==
    (enriched /\ (env.CHANNEL_ID = None \/ env.ROLE_ID = None)) =>
        (outcome \in Returns \cup {"running", "CancelledError"} /\ pc # "failed")

\* C8: a record of current_pdfs whose url is a url of previous_pdfs, and whose
\* filename differs from the filename of the entry previous_urls holds for
\* that url (the last such entry), is classified modified, whatever its
\* document_id and title.
C8_FilenameChangeIsModified ==
    AfterDiff =>
        \A i \in 1..Len(current) :
            (/\ HasUrl(previous_pdfs, current[i].url)
             /\ current[i].filename # LastWithUrl(previous_pdfs, current[i].url).filename)
            => IsModified(current[i])

\* C8 witness: a record whose filename is absent (a failed HEAD request) where
\* the matched entry has one, with equal document_id and a different title
C8_Witness ==
    /\ AfterDiff
    /\ \E i \in 1..Len(current) :
        /\ HasUrl(previous_pdfs, current[i].url)
        /\ LET e == LastWithUrl(previous_pdfs, current[i].url)
           IN  /\ current[i].filename = None
               /\ e.filename # None
               /\ e.document_id = current[i].document_id
               /\ e.title # current[i].title

\* C9: a record of current_pdfs whose url is a url of previous_pdfs, and which
\* has the filename of the entry previous_urls holds for that url but neither
\* its document_id nor its title, is in neither list, even if its title is the
\* title of another entry of previous_pdfs.
C9_TitleMismatchBlocksDocumentId ==
    AfterDiff =>
        \A i \in 1..Len(current) :
            (/\ HasUrl(previous_pdfs, current[i].url)
             /\ LET e == LastWithUrl(previous_pdfs, current[i].url)
                IN  /\ current[i].filename = e.filename
                    /\ current[i].document_id # e.document_id
                    /\ current[i].title # e.title)
            => IsUnchanged(current[i])

\* C9 witness: such a record, whose title is the title of another entry
C9_Witness ==
    /\ AfterDiff
    /\ \E i \in 1..Len(current) :
        /\ HasUrl(previous_pdfs, current[i].url)
        /\ LET e == LastWithUrl(previous_pdfs, current[i].url)
           IN  /\ current[i].filename = e.filename
               /\ current[i].document_id # e.document_id
               /\ current[i].title # e.title
        /\ \E j \in 1..Len(previous_pdfs) :
            /\ previous_pdfs[j].title = current[i].title
            /\ previous_pdfs[j].url # current[i].url

\* C10: a record of current_pdfs whose url is the url of no entry of
\* previous_pdfs is classified modified if its title is the title of some
\* entry of previous_pdfs, and new if not; with an empty previous_pdfs every
\* record of current_pdfs is classified new.
HasTitle(previous, title) == \E j \in 1..Len(previous) : previous[j].title = title
C10_UnseenUrlByTitle ==
    AfterDiff =>
        /\ \A i \in 1..Len(current) :
            ~HasUrl(previous_pdfs, current[i].url) =>
                IF HasTitle(previous_pdfs, current[i].title)
                THEN IsModified(current[i])
                ELSE IsNew(current[i])
        /\ previous_pdfs = <<>> => new_pdfs = current

\* C10 witness: two records with an unseen url, one under a title of
\* previous_pdfs and one under an unseen title
C10_Witness ==
    /\ AfterDiff
    /\ \E i, k \in 1..Len(current) :
        /\ ~HasUrl(previous_pdfs, current[i].url)
        /\ ~HasUrl(previous_pdfs, current[k].url)
        /\ HasTitle(previous_pdfs, current[i].title)
        /\ ~HasTitle(previous_pdfs, current[k].title)

----------------------------------------------------------------------------
(* Notification, scheduling and the snapshot store *)

\* the messages a cycle with these two lists sends when every send returns
MessagesFor(new, modified) ==
    (IF new # <<>> THEN <<Message("new", new)>> ELSE <<>>)
    \o (IF modified # <<>> THEN <<Message("modified", modified)>> ELSE <<>>)

\* C11: a cycle never sends more than two messages; a cycle that reaches
\* save_data (identifiers set, channel resolved or nothing to announce) has
\* sent no message when both lists are empty and otherwise exactly one
\* message per non-empty list, the new records first.
C11_OneMessagePerList ==
    /\ Len(sent) <= 2
    /\ pc = "save" => sent = MessagesFor(new_pdfs, modified_pdfs)

\* C11 witness: both lists are non-empty and the two messages are sent
C11_Witness ==
    /\ pc = "save"
    /\ new_pdfs # <<>>
    /\ modified_pdfs # <<>>
    /\ Len(sent) = 2

\* C12: a cycle starts only while the loop task waits for its next
\* iteration, never while a cycle is running; within a cycle the list read
\* from the file is set once, at the start, and the file is written at most
\* once, by the step that ends the cycle.
C12_CyclesNeverOverlap ==
    [][/\ pc' = "launch" => pc \in {"due", "sleep", "backoff"}
       /\ (pc \in InCycle /\ previous_pdfs' # previous_pdfs) => pc' \notin InCycle
       /\ file' # file => (pc = "save" /\ pc' \notin InCycle)
       /\ saves' <= 1]_vars

\* C12 witness: a second cycle runs over the two-record snapshot that the
\* first cycle saved before it ended
C12_Witness ==
    /\ pc = "launch"
    /\ outcome = "running"
    /\ file.state = "json"
    /\ Len(file.text) = 2
    /\ previous_pdfs = JsonLoad(file.text)

\* C13: after the process was killed during save_data over a snapshot that
\* an earlier save_data wrote, load_data can still read the file: it returns
\* a list and raises nothing.
C13_CrashKeepsFileReadable ==
    (pc = "crashed" /\ file_at_start.state = "json") =>
        load_data(file).exc = None

\* C14: a cycle that starts while the snapshot file does not exist does not
\* end with an exception of load_data, and runs with an empty previous list.
LoadErrors == {"FileNotFoundError", "JSONDecodeError", "OSError"}
C14_MissingFileIsEmptyList ==
    file_at_start = Absent =>
        /\ outcome \notin LoadErrors
        /\ pc \in InCycle => previous_pdfs = <<>>

\* C14 witness: the first cycle, with no file, reaches the end of the diff
\* with every scraped record classified new
C14_Witness ==
    /\ pc = "config"
    /\ file_at_start = Absent
    /\ previous_pdfs = <<>>
    /\ new_pdfs # <<>>
    /\ new_pdfs = current

\* C15: when save_data returns, load_data on the file it wrote returns a
\* list equal to the saved list, record by record and in the same order, and
\* raises nothing.
C15_SaveLoadRoundTrip ==
    [][(pc = "save" /\ pc' = "sleep") =>
          load_data(file') = [exc |-> None, value |-> current]]_vars

\* C15 witness: a saved list of two records, with an absent filename, an
\* absent document_id and a present one of each, is in the file
C15_Witness ==
    /\ pc = "sleep"
    /\ outcome = "returned"
    /\ saves = 1
    /\ LET data == load_data(file).value
       IN  /\ Len(data) = 2
           /\ \E i, k \in 1..2 : data[i].filename = None /\ data[k].filename # None
           /\ \E i, k \in 1..2 :
                data[i].document_id = None /\ data[k].document_id # None

\* C16: the loop task starts waiting for the client; the grace delay begins
\* only once the client is ready, the first iteration becomes due only when
\* the grace delay is over, the first cycle starts only from there, and the
\* task never goes back to either wait.
C16_FirstCycleAfterReadyAndGrace ==
    /\ pc = "wait_ready" /\ outcome = "none"
    /\ [][/\ (outcome = "none" /\ outcome' # "none") => (pc = "due" /\ ready)
          /\ pc' = "due" => pc = "grace"
          /\ pc' = "grace" => (pc = "wait_ready" /\ ready)
          /\ pc' = "wait_ready" => pc = "wait_ready"]_vars

\* C16 witness: the first cycle has started, the client being ready
C16_Witness ==
    /\ pc = "launch"
    /\ ready
    /\ sent = <<>>
    /\ file_at_start \in StartFiles

\* C17: in the enrichment loop the records before the loop index have a
\* filename value and the others have none yet; a HEAD request that raised
\* gives its record the filename None; after the diff every record of
\* current_pdfs has its filename value; and no cycle ends with an error of
\* an HTTP request before its enrichment loop is over.
HasFilename(pdf) == "filename" \in DOMAIN pdf
RequestErrors == {"ClientError", "TimeoutError", "HTTPException"}
C17_FailedHeadNeverAborts ==
    /\ (pc = "enrich" /\ ~current_pdfs.none) =>
        /\ \A i \in 1..Len(current) : HasFilename(current[i]) <=> i <= idx
        /\ idx < Len(current) =>
            \A answer \in AnswersOf(site, current[idx + 1].url) :
                answer.raised => get_metadata(answer) = None
    /\ AfterDiff =>
        /\ idx = Len(current)
        /\ \A i \in 1..Len(current) : HasFilename(current[i])
    /\ outcome \in RequestErrors => enriched

\* C17 witness: the diff has run over two records, the first with the filename
\* None that a failed HEAD request leaves and the second with a file name
C17_Witness ==
    /\ pc = "config"
    /\ Len(current) = 2
    /\ current[1].filename = None
    /\ current[2].filename # None

\* C18: a record of previous_pdfs whose url and title belong to no record of
\* current_pdfs is in neither list of the diff and on no line of a message
\* of the cycle, and is not in the file when save_data returns; and a record
\* of current_pdfs whose url and title are both unknown to previous_pdfs, as
\* those of a record dropped by an earlier cycle are, is classified new.
SameEntry(a, b) == a.url = b.url /\ a.title = b.title
Dropped(p) == \A i \in 1..Len(current) : ~SameEntry(current[i], p)
Announced(p) ==
    \E m \in 1..Len(sent) : <<p.title, p.url>> \in Range(sent[m].lines)
DroppedUnannounced ==
    AfterDiff =>
        /\ \A j \in 1..Len(previous_pdfs) :
            Dropped(previous_pdfs[j]) =>
                /\ ~Announced(previous_pdfs[j])
                /\ \A e \in Range(new_pdfs) \cup Range(modified_pdfs) :
                    ~SameEntry(e, previous_pdfs[j])
        /\ \A i \in 1..Len(current) :
            (/\ ~HasUrl(previous_pdfs, current[i].url)
             /\ ~HasTitle(previous_pdfs, current[i].title)) => IsNew(current[i])
C18_DroppedRecordForgotten ==
    [][/\ DroppedUnannounced'
       /\ (pc = "save" /\ pc' = "sleep") =>
            \A j \in 1..Len(previous_pdfs) :
                Dropped(previous_pdfs[j]) =>
                    \A e \in Range(load_data(file').value) :
                        ~SameEntry(e, previous_pdfs[j])]_vars

\* C18 witness: a cycle that announced a change is about to save a list
\* that lacks a record of previous_pdfs
C18_Witness ==
    /\ pc = "save"
    /\ sent # <<>>
    /\ \E j \in 1..Len(previous_pdfs) : Dropped(previous_pdfs[j])

\* C19: outside scrape_pdfs no rendering session is open: whether the call
\* returned, raised at launch, new_page, goto, content or close, or was
\* cancelled, the playwright driver and its browser are stopped.
ScrapePoints == {"launch", "new_page", "goto", "content", "close"}
C19_SessionTornDown ==
    pc \notin ScrapePoints => session = "none"

\* C19 witness: scrape_pdfs raised and the cycle ended with its exception,
\* no session left open
C19_Witness ==
    /\ outcome = "PlaywrightError"
    /\ pc = "failed"
    /\ session = "none"

\* C20: a cycle that sent a message and has ended, by returning, by an
\* exception of a later channel.send or by cancellation, called save_data.
Ended == pc \notin InCycle /\ outcome \in Returns \cup RequestErrors \cup {"CancelledError"}
C20_AnnouncedCycleSaved ==
    (Ended /\ sent # <<>>) => saves = 1

\* C20 as the code has it: a cycle that sent a message and returned called
\* save_data once and the file holds a list; a cycle that sent a message and
\* was ended by an exception of channel.send or by cancellation did not call
\* save_data, and the file holds what it held when the cycle started.
C20_AnnouncedCycleSavedIfReturned ==
    (Ended /\ sent # <<>>) =>
        IF outcome \in Returns
        THEN outcome = "returned" /\ saves = 1 /\ file.state = "json"
        ELSE saves = 0 /\ file = file_at_start

\* C20 witness: the second channel.send raised a connection error after the
\* first message went out; the loop backs off and will run the cycle again
\* over the unchanged file
C20_Witness ==
    /\ pc = "backoff"
    /\ outcome = "ClientError"
    /\ Len(sent) = 1
    /\ saves = 0
    /\ file = file_at_start

====
